---------------------------- MODULE Spec2Model ----------------------------
(***************************************************************************)
(* Startup of the FarmViewer (src/main.js): filename resolution, terrain   *)
(* loading with placeholder fallback, the camera switch and the spawn      *)
(* placement; then the input handlers and the per-frame update.            *)
(*                                                                         *)
(* Lengths are integers in thousandths of a world unit (1 unit = 1000), so *)
(* that playerHeight = 1.8, the 0.4 depth factor and the halving of        *)
(* (min + max) stay exact on the boxes used here.  Angles are integers in  *)
(* millionths of a radian, joystick values in thousandths.                 *)
(*                                                                         *)
(* JavaScript runs the code between two awaits without interleaving; the   *)
(* only suspension points of startup are the HEAD probes and the mesh      *)
(* import.  The steps between them are kept as separate actions, ordered   *)
(* by pc, so that the intermediate states can be inspected; no other       *)
(* action is enabled in between.                                           *)
(***************************************************************************)
EXTENDS Integers, Sequences, FiniteSets

VARIABLES
    pc,              \* position of init()/loadTerrain()/findObjFile()
    terrainName,     \* this.terrainName
    fileIdx,         \* findObjFile: index of fileName in possibleNames
    probed,          \* findObjFile: outcomes of the probes answered so far
    found,           \* findObjFile: the value being returned
    objFileName,     \* loadTerrain: const objFileName
    importOutcome,   \* how ImportMeshAsync answered ("pending" before)
    resultMeshes,    \* loadTerrain: result.meshes (mesh ids, in order)
    meshes,          \* the scene's meshes: id -> fields
    farmMesh,        \* this.farmMesh (a mesh id, or Null)
    terrainMinY,     \* this.terrainMinY
    camera,          \* this.camera
    arcDisposed,     \* the ArcRotate camera was disposed
    loadResult,      \* how loadTerrain ended: "none", "imported", "placeholder"
    caught,          \* loadTerrain's catch block: the step whose error it caught
    placeholderCalls,\* number of calls of createPlaceholderTerrain
    failedAt,        \* init's catch block: the step whose error it caught
    errorShown,      \* showError replaced the loading screen's content
    loadingHidden,   \* hideLoadingScreen ran
    controlsSet,     \* setupControls registered the handlers
    rendering,       \* runRenderLoop was called
    calls,           \* how often findObjFile, loadTerrain and
                     \* positionCameraForTerrain were entered
    rotation,        \* this.camera.rotation: x is the pitch, y the yaw
    isMobile,        \* this.isMobile
    keys,            \* this.keys: the keys whose flag is true
    isPointerLocked, \* this.isPointerLocked
    mobileInput,     \* this.mobileInput
    dragging,        \* setupJoystick: isDragging of each joystick
    lastTouch,       \* this.lastTouch
    drag,            \* handleMove: the joystick and raw offset of the last move
    steps,           \* input events and frame ticks so far
    ticks,           \* frame ticks so far
    logged,          \* whether this behaviour keeps the log of requests
    requests,        \* the probes and the import sent so far, with their answers
    pointerLockElement, \* document.pointerLockElement
    lookEvent,       \* a look event was handled since the last frame
    touching         \* the vertical buttons a touch is in progress on

vars == << pc, terrainName, fileIdx, probed, found, objFileName, importOutcome,
           resultMeshes, meshes, farmMesh, terrainMinY, camera, arcDisposed,
           loadResult, caught, placeholderCalls, failedAt, errorShown,
           loadingHidden, controlsSet, rendering, calls, rotation, isMobile,
           keys, isPointerLocked, mobileInput, dragging, lastTouch, drag,
           steps, ticks,
           logged, requests, pointerLockElement, lookEvent, touching >>

\* mesh handles are pairs <<name, index>>; Null stands for JavaScript null
Null == << "null", 0 >>

-----------------------------------------------------------------------------
(* Bounds and inputs *)

\* most meshes one import returns
MaxMeshes == 3

\* most frames and input events followed in one run
MaxSteps == 4

\* terrain identifiers: two of the blocks the constructor lists, and one
\* that coincides with a generic candidate name
TerrainNames == { "BlockAB", "BlockXB", "farm" }

Vec(a, b, c) == [x |-> a, y |-> b, z |-> c]

\* bounding boxes an imported part can have (thousandths of a unit)
ImportBoxes ==
    { [minimum |-> Vec(-20000, 0, -20000), maximum |-> Vec(20000, 4000, 20000)],
      [minimum |-> Vec(0, -5000, 0),       maximum |-> Vec(10000, 2000, 10000)],
      [minimum |-> Vec(-4000, 3000, -6000), maximum |-> Vec(4000, 9000, 6000)] }

\* heights Math.random() * 3 can give to the lowest and highest vertex
PlaceholderHeights == { 0, 1500, 2999 }

ProbeOutcomes == { "exists", "missing", "error" }

-----------------------------------------------------------------------------
(* Constants of the constructor *)

playerHeight == 1800
InitialTerrainMinY == -5000
TerrainBuffer == 1000

\* per frame, in thousandths of a unit
moveSpeed == 80
verticalSpeed == 50

\* per pixel of mouse movement, in millionths of a radian
mouseSensitivity == 2000

\* Math.PI / 2 in millionths of a radian, Math.PI in thousandths
PiHalf == 1570796
PiMilli == 3142

-----------------------------------------------------------------------------
(* Small helpers *)

Max(a, b) == IF a >= b THEN a ELSE b

Min(a, b) == IF a <= b THEN a ELSE b

\* integer quotient rounded towards zero
Quot(a, b) == IF a >= 0 THEN a \div b ELSE -((-a) \div b)

\* the integer part of a square root
Sqrt(n) == CHOOSE r \in 0..n : r * r <= n /\ (r + 1) * (r + 1) > n

Range(s) == { s[i] : i \in 1..Len(s) }

-----------------------------------------------------------------------------
(* The engine's objects, as far as main.js reads and writes them *)

Zero == Vec(0, 0, 0)

PartId(i) == << "part", i >>
TerrainParentId == << "terrainParent", 0 >>
PlaceholderId == << "placeholderTerrain", 0 >>
GroundPlaneId == << "groundPlane", 0 >>

\* a mesh as the OBJ import hands it over: no parent, collisions off, and,
\* when it carries a material, that material's backFaceCulling at its default
ImportedMesh(box, hasMaterial) ==
    [ parent |-> Null, checkCollisions |-> FALSE, hasMaterial |-> hasMaterial,
      backFaceCulling |-> TRUE, box |-> box ]

\* new BABYLON.Mesh("terrainParent", scene): a mesh without geometry; its own
\* bounding info is the degenerate box at its position, the origin
EmptyMesh ==
    [ parent |-> Null, checkCollisions |-> FALSE, hasMaterial |-> FALSE,
      backFaceCulling |-> TRUE, box |-> [minimum |-> Zero, maximum |-> Zero] ]

\* createGroundPlane: CreateGround 200 x 200 at y = -5, material, collisions on
GroundPlaneMesh ==
    [ parent |-> Null, checkCollisions |-> TRUE, hasMaterial |-> TRUE,
      backFaceCulling |-> TRUE,
      box |-> [minimum |-> Vec(-100000, -5000, -100000),
               maximum |-> Vec(100000, -5000, 100000)] ]

\* the placeholder after createPlaceholderTerrain: CreateGround 30 x 30 whose
\* vertex heights were overwritten; lo and hi are the lowest and highest of
\* them (setVerticesData refreshes the bounding info)
PlaceholderMesh(lo, hi) ==
    [ parent |-> Null, checkCollisions |-> TRUE, hasMaterial |-> TRUE,
      backFaceCulling |-> TRUE,
      box |-> [minimum |-> Vec(-15000, lo, -15000),
               maximum |-> Vec(15000, hi, 15000)] ]

\* mesh.getBoundingInfo().boundingBox: the mesh's own box, never its children's
getBoundingInfo(m) == meshes[m].box

NoCamera ==
    [ kind |-> "null", position |-> Zero, target |-> Zero, radius |-> 0,
      hasRadius |-> FALSE, checkCollisions |-> FALSE, applyGravity |-> FALSE ]

\* createInitialCamera: ArcRotateCamera(alpha, beta, 50, Zero); the engine
\* derives its position from alpha, beta and radius, which is not modelled
ArcRotateCamera ==
    [ kind |-> "ArcRotateCamera", position |-> Zero, target |-> Zero,
      radius |-> 50000, hasRadius |-> TRUE, checkCollisions |-> FALSE,
      applyGravity |-> FALSE ]

\* setupFirstPersonCamera: UniversalCamera at (0, playerHeight, 10), target
\* Zero, collisions and gravity on; it has no radius property of its own
UniversalCamera ==
    [ kind |-> "UniversalCamera", position |-> Vec(0, playerHeight, 10000),
      target |-> Zero, radius |-> 0, hasRadius |-> FALSE,
      checkCollisions |-> TRUE, applyGravity |-> TRUE ]

\* the truth value of camera.setTarget: both camera classes have the method
\* (main.js calls it on the UniversalCamera itself in setupFirstPersonCamera)
HasSetTarget(kind) == kind \in { "ArcRotateCamera", "UniversalCamera" }

-----------------------------------------------------------------------------
(* findObjFile *)

possibleNames(name) ==
    << "terrain.obj", name \o ".obj", "Geordie.obj", "model.obj", "mesh.obj",
       "farm.obj" >>

\* variant: falls back to the legacy file name instead of the identifier's
FallbackNameLegacy(name) == "farm.obj"

\* the value returned when the loop ends without a hit
FallbackName(name) == name \o ".obj"

\* variant: any answered probe counts as a hit, whatever its status
ProbeEffectAnyResponse(outcome) ==
    IF outcome \in { "exists", "missing" } THEN "return" ELSE "next"

\* variant: a rejected fetch is not caught inside the loop
ProbeEffectErrorThrows(outcome) ==
    IF outcome = "exists" THEN "return"
    ELSE IF outcome = "error" THEN "throw" ELSE "next"

\* what one answered probe makes the loop do: "return" the name, go on with
\* the "next" name, or "throw" out of findObjFile.  testResponse.ok returns;
\* a response that is not ok falls out of the try; a rejected fetch is caught
\* and continues
ProbeEffect(outcome) ==
    IF outcome = "exists" THEN "return" ELSE "next"

-----------------------------------------------------------------------------
(* Input state as the constructor leaves it *)

\* this.mobileInput: both joysticks centred and inactive, no button held
RestingJoystick == [ x |-> 0, y |-> 0, active |-> FALSE ]

RestingMobileInput ==
    [ movement |-> RestingJoystick, look |-> RestingJoystick,
      verticalUp |-> FALSE, verticalDown |-> FALSE ]

\* this.lastTouch is undefined or null
NoTouch == [ set |-> FALSE, x |-> 0, y |-> 0 ]

\* no joystick move handled yet
NoDrag == [ type |-> "none", dx |-> 0, dy |-> 0 ]

\* there is no camera yet whose rotation could be read
NoRotation == [ x |-> 0, y |-> 0 ]

NoCalls == [ findObjFile |-> 0, loadTerrain |-> 0, positionCameraForTerrain |-> 0 ]

-----------------------------------------------------------------------------
(* State after the constructor, before init() has run *)

\* the fields as the constructor leaves them
Constructed ==
    /\ pc = "init"
    /\ terrainName \in TerrainNames
    /\ fileIdx = 0
    /\ probed = << >>
    /\ found = ""
    /\ objFileName = ""
    /\ importOutcome = "pending"
    /\ resultMeshes = << >>
    /\ meshes = << >>
    /\ farmMesh = Null
    /\ terrainMinY = InitialTerrainMinY
    /\ camera = NoCamera
    /\ arcDisposed = FALSE
    /\ loadResult = "none"
    /\ caught = "none"
    /\ placeholderCalls = 0
    /\ failedAt = "none"
    /\ errorShown = FALSE
    /\ loadingHidden = FALSE
    /\ controlsSet = FALSE
    /\ rendering = FALSE
    /\ calls = NoCalls
    /\ requests = << >>
    /\ rotation = NoRotation
    /\ isMobile \in BOOLEAN
    /\ keys = { }
    /\ isPointerLocked = FALSE
    /\ mobileInput = RestingMobileInput
    /\ dragging = [ movement |-> FALSE, look |-> FALSE ]
    /\ lastTouch = NoTouch
    /\ drag = NoDrag
    /\ steps = 0
    /\ ticks = 0
    /\ pointerLockElement = "null"
    /\ lookEvent = FALSE
    /\ touching = { }

Init == Constructed /\ logged = FALSE

findLocals == << fileIdx, probed, found >>
loadLocals == << objFileName, importOutcome, resultMeshes >>
terrainVars == << meshes, farmMesh, terrainMinY >>
cameraVars == << camera, arcDisposed >>
loadStatus == << loadResult, caught, placeholderCalls >>
pageVars == << errorShown, loadingHidden, controlsSet, rendering >>
inputVars == << keys, isPointerLocked, mobileInput, dragging, lastTouch, drag >>
frameVars == << isMobile, inputVars, steps, ticks, pointerLockElement, lookEvent, touching >>

\* variant: the request is sent twice, the second time without waiting
SentTwice(reqs, kind, path) ==
    IF logged
    THEN Append(Append(reqs, [ kind |-> kind, path |-> path, answer |-> "pending" ]),
                [ kind |-> kind, path |-> path, answer |-> "pending" ])
    ELSE reqs

\* the log after fetch (kind "probe") or ImportMeshAsync (kind "import") was
\* called for the path
Sent(reqs, kind, path) ==
    IF logged
    THEN Append(reqs, [ kind |-> kind, path |-> path, answer |-> "pending" ])
    ELSE reqs

\* the log after the awaited request, the last one sent, was answered: "ok"
\* for response.ok or a resolved import, "failed" for anything else
Answered(reqs, answer) ==
    IF logged THEN [ reqs EXCEPT ![Len(reqs)].answer = answer ] ELSE reqs

\* variant: the catch block also hides the loading screen
InitCatchHides(step) ==
    /\ pc' = "failed"
    /\ failedAt' = step
    /\ errorShown' = TRUE
    /\ loadingHidden' = TRUE
    /\ UNCHANGED << controlsSet, rendering >>

\* init's catch block: log, showError
InitCatch(step) ==
    /\ pc' = "failed"
    /\ failedAt' = step
    /\ errorShown' = TRUE
    /\ UNCHANGED << loadingHidden, controlsSet, rendering >>

\* init, from the canvas lookup to createGroundPlane; then loadTerrain is
\* entered and findObjFile issues its first probe.  Creating the engine may
\* throw (no WebGL context), which init's catch block handles.
Bootstrap ==
    /\ pc = "init"
    /\ \E throws \in BOOLEAN :
         IF throws
         THEN /\ InitCatch("bootstrap")
              /\ UNCHANGED << terrainName, logged, requests, frameVars, rotation, calls, findLocals, loadLocals, terrainVars,
                              cameraVars, loadStatus >>
         ELSE /\ pc' = "probe"
              /\ camera' = ArcRotateCamera
              /\ meshes' = [ id \in { GroundPlaneId } |-> GroundPlaneMesh ]
              /\ fileIdx' = 1
              /\ calls' = [ calls EXCEPT !.loadTerrain = @ + 1, !.findObjFile = @ + 1 ]
              /\ requests' = Sent(requests, "probe", possibleNames(terrainName)[1])
              /\ UNCHANGED << terrainName, logged, frameVars, rotation, probed, found, loadLocals, farmMesh,
                              terrainMinY, arcDisposed, loadStatus, failedAt,
                              pageVars >>

\* variant: the probe is given up after a timeout, unanswered, and the
\* timeout is thrown into loadTerrain's catch block
ProbeTimesOut ==
    /\ pc = "probe"
    /\ caught' = "findObjFile"
    /\ pc' = "catch"
    /\ requests' = Answered(requests, "failed")
    /\ UNCHANGED << terrainName, logged, frameVars, rotation, calls, findLocals, loadLocals,
                    terrainVars, cameraVars, loadResult, placeholderCalls, failedAt,
                    pageVars >>

\* findObjFile: the probe of possibleNames[fileIdx] is answered
ProbeResponds ==
    /\ pc = "probe"
    /\ \E outcome \in ProbeOutcomes :
         LET effect == ProbeEffect(outcome)
             names == possibleNames(terrainName)
             reqs == Answered(requests, IF outcome = "exists" THEN "ok" ELSE "failed")
         IN  /\ probed' = Append(probed, outcome)
             /\ CASE effect = "return" ->
                       /\ found' = names[fileIdx]
                       /\ pc' = "findReturn"
                       /\ requests' = reqs
                       /\ UNCHANGED << fileIdx, caught >>
                  [] effect = "next" /\ fileIdx < Len(names) ->
                       /\ fileIdx' = fileIdx + 1
                       /\ pc' = "probe"
                       /\ requests' = Sent(reqs, "probe", names[fileIdx + 1])
                       /\ UNCHANGED << found, caught >>
                  [] effect = "next" /\ fileIdx = Len(names) ->
                       /\ found' = FallbackName(terrainName)
                       /\ pc' = "findReturn"
                       /\ requests' = reqs
                       /\ UNCHANGED << fileIdx, caught >>
                  [] OTHER ->
                       \* the error leaves findObjFile and reaches
                       \* loadTerrain's catch block
                       /\ caught' = "findObjFile"
                       /\ pc' = "catch"
                       /\ requests' = reqs
                       /\ UNCHANGED << fileIdx, found >>
    /\ UNCHANGED << terrainName, logged, frameVars, rotation, calls, loadLocals, terrainVars, cameraVars,
                    loadResult, placeholderCalls, failedAt, pageVars >>

\* findObjFile returns to loadTerrain, which checks the name and issues
\* ImportMeshAsync; findObjFile's locals are gone
FindReturn ==
    /\ pc = "findReturn"
    /\ objFileName' = found
    /\ fileIdx' = 0
    /\ probed' = << >>
    /\ found' = ""
    /\ IF Len(found) = 0
       THEN pc' = "catch" /\ caught' = "noFileName" /\ UNCHANGED requests
       ELSE /\ pc' = "import"
            /\ requests' = Sent(requests, "import", found)
            /\ UNCHANGED caught
    /\ UNCHANGED << terrainName, logged, frameVars, rotation, calls, importOutcome, resultMeshes, terrainVars,
                    cameraVars, loadResult, placeholderCalls, failedAt, pageVars >>

-----------------------------------------------------------------------------
(* loadTerrain *)

\* the parts one import can return: a box and whether a material is attached
MeshKinds == ImportBoxes \X BOOLEAN

PartIds(n) == [ i \in 1..n |-> PartId(i) ]

\* the scene after the import added its n meshes
WithImported(ms, kinds) ==
    [ id \in DOMAIN ms \cup Range(PartIds(Len(kinds))) |->
        IF id \in DOMAIN ms THEN ms[id]
        ELSE ImportedMesh(kinds[id[2]][1], kinds[id[2]][2]) ]

\* variant: an empty result is taken for a terrain
ImportAcceptedAlways(n) == n >= 0

\* result.meshes && result.meshes.length > 0
ImportAccepted(n) == n > 0

ImportLabel(n) == IF n = 0 THEN "zero" ELSE IF n = 1 THEN "one" ELSE "many"

\* ImportMeshAsync rejects: the await throws into loadTerrain's catch block
ImportRejected ==
    /\ importOutcome' = "throws"
    /\ pc' = "catch"
    /\ caught' = "import"
    /\ requests' = Answered(requests, "failed")
    /\ UNCHANGED << resultMeshes, meshes >>

\* ImportMeshAsync is answered: it rejects, or resolves with 0..MaxMeshes
\* meshes that are now in the scene.  A rejection and an empty result both
\* end in loadTerrain's catch block.
ImportResponds ==
    /\ pc = "import"
    /\ \/ ImportRejected
       \/ \E n \in 0..MaxMeshes : \E kinds \in [ 1..n -> MeshKinds ] :
            /\ importOutcome' = ImportLabel(n)
            /\ requests' = Answered(requests, "ok")
            /\ resultMeshes' = PartIds(n)
            /\ meshes' = WithImported(meshes, kinds)
            /\ IF ImportAccepted(n)
               THEN pc' = "build" /\ UNCHANGED caught
               ELSE pc' = "catch" /\ caught' = "noMeshes"
    /\ UNCHANGED << terrainName, logged, frameVars, rotation, calls, findLocals, objFileName, farmMesh, terrainMinY,
                    cameraVars, loadResult, placeholderCalls, failedAt, pageVars >>

\* variant: only the first returned mesh is attached to the anchor
ReparentedFirstOnly(ms, parts, anchor) ==
    [ id \in DOMAIN ms |->
        IF Len(parts) > 0 /\ id = parts[1]
        THEN [ ms[id] EXCEPT !.parent = anchor ] ELSE ms[id] ]

\* the meshes with every mesh of result.meshes re-parented to the anchor
Reparented(ms, parts, anchor) ==
    [ id \in DOMAIN ms |->
        IF id \in Range(parts) THEN [ ms[id] EXCEPT !.parent = anchor ] ELSE ms[id] ]

\* the entity: the single mesh itself, or a new empty parent of all meshes.
\* Creating the parent mesh is an engine call and may throw.
BuildEntity ==
    /\ pc = "build"
    /\ IF Len(resultMeshes) = 1
       THEN /\ farmMesh' = resultMeshes[1]
            /\ pc' = "bounds"
            /\ UNCHANGED << meshes, caught >>
       ELSE \E throws \in BOOLEAN :
              IF throws
              THEN /\ pc' = "catch"
                   /\ caught' = "build"
                   /\ UNCHANGED << farmMesh, meshes >>
              ELSE /\ farmMesh' = TerrainParentId
                   /\ meshes' = Reparented(
                          [ id \in DOMAIN meshes \cup { TerrainParentId } |->
                              IF id = TerrainParentId THEN EmptyMesh ELSE meshes[id] ],
                          resultMeshes, TerrainParentId)
                   /\ pc' = "bounds"
                   /\ UNCHANGED caught
    /\ UNCHANGED << terrainName, logged, requests, frameVars, rotation, calls, findLocals, loadLocals, terrainMinY, cameraVars,
                    loadResult, placeholderCalls, failedAt, pageVars >>

\* boundingBox.minimum.y - 1 of the entity
FloorOf(m) == getBoundingInfo(m).minimum.y - TerrainBuffer

\* terrainMinY from the entity's bounding box; getBoundingInfo is an engine
\* call and may throw
ComputeBounds ==
    /\ pc = "bounds"
    /\ \E throws \in BOOLEAN :
         IF throws
         THEN /\ pc' = "catch"
              /\ caught' = "bounds"
              /\ UNCHANGED terrainMinY
         ELSE /\ terrainMinY' = FloorOf(farmMesh)
              /\ pc' = "process"
              /\ UNCHANGED caught
    /\ UNCHANGED << terrainName, logged, requests, frameVars, rotation, calls, findLocals, loadLocals, meshes, farmMesh,
                    cameraVars, loadResult, placeholderCalls, failedAt, pageVars >>

\* variant: collisions are enabled but the material's culling is left on
ProcessMeshKeepCulling(m) == [ m EXCEPT !.checkCollisions = TRUE ]

\* the body of result.meshes.forEach for one mesh
ProcessMesh(m) ==
    [ m EXCEPT !.checkCollisions = TRUE,
               !.backFaceCulling = IF m.hasMaterial THEN FALSE ELSE @ ]

\* result.meshes.forEach(...); the try block ends and loadTerrain returns
ProcessMeshes ==
    /\ pc = "process"
    /\ meshes' = [ id \in DOMAIN meshes |->
                     IF id \in Range(resultMeshes) THEN ProcessMesh(meshes[id])
                     ELSE meshes[id] ]
    /\ loadResult' = "imported"
    /\ pc' = "loaded"
    /\ objFileName' = ""
    /\ resultMeshes' = << >>
    /\ UNCHANGED << terrainName, logged, requests, frameVars, rotation, calls, findLocals, importOutcome, farmMesh, terrainMinY,
                    cameraVars, caught, placeholderCalls, failedAt, pageVars >>

\* variant: the catch block logs and throws the error on to init
LoadCatchRethrows ==
    /\ pc = "catch"
    /\ InitCatch("loadTerrain")
    /\ UNCHANGED << terrainName, logged, requests, frameVars, rotation, calls, findLocals, loadLocals, terrainVars, cameraVars,
                    loadStatus >>

\* loadTerrain's catch block, with createPlaceholderTerrain: a new ground mesh
\* with random heights becomes farmMesh; terrainMinY is not assigned.  The
\* error is logged and not thrown again, so loadTerrain returns normally.
LoadCatch ==
    /\ pc = "catch"
    /\ \E lo \in PlaceholderHeights : \E hi \in PlaceholderHeights :
         /\ lo <= hi
         /\ meshes' = [ id \in DOMAIN meshes \cup { PlaceholderId } |->
                          IF id = PlaceholderId THEN PlaceholderMesh(lo, hi)
                          ELSE meshes[id] ]
    /\ farmMesh' = PlaceholderId
    /\ placeholderCalls' = placeholderCalls + 1
    /\ loadResult' = "placeholder"
    /\ pc' = "loaded"
    /\ objFileName' = ""
    /\ resultMeshes' = << >>
    /\ UNCHANGED << terrainName, logged, requests, frameVars, rotation, calls, findLocals, importOutcome, terrainMinY,
                    cameraVars, caught, failedAt, pageVars >>

-----------------------------------------------------------------------------
(* The rest of init *)

\* the rotation setTarget(Zero) gives the camera at (0, playerHeight, 10):
\* facing -z (yaw pi) and looking down by atan(1.8 / 10)
FirstPersonRotation == [ x |-> 178093, y |-> 3141593 ]

\* variant: the new camera is created without disposing of the old one
SwitchCameraKeepOld ==
    /\ arcDisposed' = arcDisposed
    /\ camera' = UniversalCamera
    /\ rotation' = FirstPersonRotation

\* the body of setupFirstPersonCamera
SwitchCamera ==
    /\ arcDisposed' = TRUE
    /\ camera' = UniversalCamera
    /\ rotation' = FirstPersonRotation

\* the ArcRotate camera is disposed and replaced by the UniversalCamera; an
\* engine call in it may throw, which init's catch block handles (the
\* exception is taken to be raised before any assignment)
SetupFirstPersonCamera ==
    /\ pc = "loaded"
    /\ \E throws \in BOOLEAN :
         IF throws
         THEN /\ InitCatch("setupFirstPersonCamera")
              /\ UNCHANGED << cameraVars, rotation >>
         ELSE /\ SwitchCamera
              /\ pc' = "fpCamera"
              /\ UNCHANGED << failedAt, pageVars >>
    /\ UNCHANGED << terrainName, logged, requests, frameVars, calls, findLocals, loadLocals, terrainVars,
                    loadStatus >>

Center(box) ==
    Vec((box.minimum.x + box.maximum.x) \div 2,
        (box.minimum.y + box.maximum.y) \div 2,
        (box.minimum.z + box.maximum.z) \div 2)

Size(box) ==
    Vec(box.maximum.x - box.minimum.x,
        box.maximum.y - box.minimum.y,
        box.maximum.z - box.minimum.z)

\* the branch for a camera with setTarget: center as target, 1.5 times the
\* larger horizontal extent as radius
OverviewPlacement(cam, box) ==
    [ cam EXCEPT !.target = Center(box),
                 !.radius = (Max(Size(box).x, Size(box).z) * 15) \div 10,
                 !.hasRadius = TRUE ]

\* the position the other branch assigns
SpawnPosition(box) ==
    Vec(Center(box).x,
        Max(Center(box).y + playerHeight, box.maximum.y + playerHeight),
        Center(box).z + Max((Size(box).z * 4) \div 10, 10000))

WalkingPlacement(cam, box) == [ cam EXCEPT !.position = SpawnPosition(box) ]

positionCameraForTerrain(cam, mesh) ==
    IF mesh = Null THEN cam
    ELSE IF HasSetTarget(cam.kind)
         THEN OverviewPlacement(cam, getBoundingInfo(mesh))
         ELSE WalkingPlacement(cam, getBoundingInfo(mesh))

\* the rotation setTarget(center) leaves the camera with: it turns the camera
\* to face the target, so the pitch is within -pi/2 .. pi/2; the angles are
\* the engine's and are not computed here, one orientation stands for them
LookAtRotations == { [ x |-> -19997, y |-> 3141593 ] }

\* init calls positionCameraForTerrain; the call may throw
PositionCamera ==
    /\ pc = "fpCamera"
    /\ \E throws \in BOOLEAN :
         IF throws
         THEN /\ InitCatch("positionCameraForTerrain")
              /\ UNCHANGED << camera, rotation >>
         ELSE /\ camera' = positionCameraForTerrain(camera, farmMesh)
              /\ IF camera'.target = camera.target
                 THEN UNCHANGED rotation
                 ELSE rotation' \in LookAtRotations
              /\ pc' = "positioned"
              /\ UNCHANGED << failedAt, pageVars >>
    /\ calls' = [ calls EXCEPT !.positionCameraForTerrain = @ + 1 ]
    /\ UNCHANGED << terrainName, logged, requests, frameVars, findLocals, loadLocals, terrainVars, arcDisposed,
                    loadStatus >>

\* variant: the handlers are registered as soon as loadTerrain has returned,
\* before the camera is switched
SetupControlsEarly ==
    /\ \/ /\ pc = "loaded"
          /\ ~controlsSet
          /\ controlsSet' = TRUE
          /\ UNCHANGED pc
       \/ /\ pc = "positioned"
          /\ controlsSet' = TRUE
          /\ pc' = "controls"
    /\ UNCHANGED << failedAt, errorShown, loadingHidden, rendering >>
    /\ UNCHANGED << terrainName, logged, requests, frameVars, rotation, calls, findLocals, loadLocals, terrainVars, cameraVars,
                    loadStatus >>

\* setupControls registers the handlers; the call may throw
SetupControls ==
    /\ pc = "positioned"
    /\ \E throws \in BOOLEAN :
         IF throws
         THEN InitCatch("setupControls")
         ELSE /\ controlsSet' = TRUE
              /\ pc' = "controls"
              /\ UNCHANGED << failedAt, errorShown, loadingHidden, rendering >>
    /\ UNCHANGED << terrainName, logged, requests, frameVars, rotation, calls, findLocals, loadLocals, terrainVars, cameraVars,
                    loadStatus >>

\* variant: the render loop is started before the spawn placement
StartRenderLoopBeforeSpawn ==
    /\ pc = "fpCamera"
    /\ rendering' = TRUE
    /\ pc' = "renderLoop"
    /\ UNCHANGED << terrainName, logged, requests, frameVars, rotation, calls, findLocals, loadLocals, terrainVars, cameraVars,
                    loadStatus, failedAt, errorShown, loadingHidden, controlsSet >>

\* init calls startRenderLoop, which registers the per-frame callback
StartRenderLoop ==
    /\ pc = "controls"
    /\ rendering' = TRUE
    /\ pc' = "renderLoop"
    /\ UNCHANGED << terrainName, logged, requests, frameVars, rotation, calls, findLocals, loadLocals, terrainVars, cameraVars,
                    loadStatus, failedAt, errorShown, loadingHidden, controlsSet >>

\* init calls hideLoadingScreen and returns
HideLoadingScreen ==
    /\ pc = "renderLoop"
    /\ loadingHidden' = TRUE
    /\ pc' = "running"
    /\ UNCHANGED << terrainName, logged, requests, frameVars, rotation, calls, findLocals, loadLocals, terrainVars, cameraVars,
                    loadStatus, failedAt, errorShown, controlsSet, rendering >>

-----------------------------------------------------------------------------
(* The frame callback: updateMovement, updateMobileCameraRotation, render *)

\* sine and cosine of an angle given in millionths of a radian, in
\* thousandths (Bhaskara's rational approximation, exact at 0 and pi/2 and
\* within 0.002 elsewhere)
SinMilli(a) ==
    LET t == (a \div 1000) % (2 * PiMilli)
        h == IF t > PiMilli THEN t - PiMilli ELSE t
        p == h * (PiMilli - h)
        v == (((16 * p) \div 100) * 1000) \div ((5 * PiMilli * PiMilli - 4 * p) \div 100)
    IN  IF t > PiMilli THEN -v ELSE v

CosMilli(a) == SinMilli(a + PiHalf)

\* camera.getDirection(Vector3.Forward()) and (Vector3.Right()) for a camera
\* rotated by pitch rot.x and yaw rot.y, in thousandths
Forward(rot) ==
    Vec(Quot(SinMilli(rot.y) * CosMilli(rot.x), 1000),
        -SinMilli(rot.x),
        Quot(CosMilli(rot.y) * CosMilli(rot.x), 1000))

Right(rot) == Vec(CosMilli(rot.y), 0, -SinMilli(rot.y))

\* variant: the movement joystick counts only when neither W nor S is held
ForwardIntentKeyOrJoystick ==
    IF "w" \in keys \/ "s" \in keys
    THEN (IF "w" \in keys THEN moveSpeed ELSE 0) + (IF "s" \in keys THEN -moveSpeed ELSE 0)
    ELSE IF isMobile /\ mobileInput.movement.active
         THEN Quot(mobileInput.movement.y * moveSpeed, 1000) ELSE 0

\* the factors forward and right are scaled by, summed over the held keys and
\* the movement joystick (thousandths of a unit)
ForwardIntent ==
    (IF "w" \in keys THEN moveSpeed ELSE 0)
    + (IF "s" \in keys THEN -moveSpeed ELSE 0)
    + (IF isMobile /\ mobileInput.movement.active
       THEN Quot(mobileInput.movement.y * moveSpeed, 1000) ELSE 0)

RightIntent ==
    (IF "a" \in keys THEN -moveSpeed ELSE 0)
    + (IF "d" \in keys THEN moveSpeed ELSE 0)
    + (IF isMobile /\ mobileInput.movement.active
       THEN Quot(mobileInput.movement.x * moveSpeed, 1000) ELSE 0)

\* the movement vector before it is applied, in millionths of a unit
Movement ==
    LET f == Forward(rotation)
        r == Right(rotation)
    IN  Vec(f.x * ForwardIntent + r.x * RightIntent,
            f.y * ForwardIntent + r.y * RightIntent,
            f.z * ForwardIntent + r.z * RightIntent)

\* variant: the movement vector is applied as it is
FlattenedKeepY(m) == m

\* movement.y = 0
Flattened(m) == [ m EXCEPT !.y = 0 ]

\* variant: a key and the button for the same direction add up
VerticalMovementAdds ==
    (IF "q" \in keys THEN -verticalSpeed ELSE 0)
    + (IF isMobile /\ mobileInput.verticalDown THEN -(verticalSpeed \div 2) ELSE 0)
    + (IF "e" \in keys THEN verticalSpeed ELSE 0)
    + (IF isMobile /\ mobileInput.verticalUp THEN verticalSpeed \div 2 ELSE 0)

\* variant: the touch buttons fly as fast as the keys
VerticalMovementFullButtons ==
    (IF "q" \in keys \/ (isMobile /\ mobileInput.verticalDown) THEN -verticalSpeed ELSE 0)
    + (IF "e" \in keys \/ (isMobile /\ mobileInput.verticalUp) THEN verticalSpeed ELSE 0)

\* verticalMovement: Q and E, or else the touch buttons at half the speed
VerticalMovement ==
    (IF "q" \in keys THEN -verticalSpeed
     ELSE IF isMobile /\ mobileInput.verticalDown THEN -(verticalSpeed \div 2) ELSE 0)
    + (IF "e" \in keys THEN verticalSpeed
       ELSE IF isMobile /\ mobileInput.verticalUp THEN verticalSpeed \div 2 ELSE 0)

\* variant: the new height is taken as it is
FloorClampedNot(newY) == newY

\* the height assigned for a wanted height newY
FloorClamped(newY) ==
    IF newY >= terrainMinY + playerHeight THEN newY ELSE terrainMinY + playerHeight

\* the displacement the horizontal part adds to camera.position, in
\* thousandths of a unit
HorizontalStep ==
    IF Movement # Zero
    THEN LET m == Flattened(Movement)
         IN  Vec(Quot(m.x, 1000), Quot(m.y, 1000), Quot(m.z, 1000))
    ELSE Zero

\* camera.position after updateMovement
updateMovement ==
    LET moved == Vec(camera.position.x + HorizontalStep.x,
                     camera.position.y + HorizontalStep.y,
                     camera.position.z + HorizontalStep.z)
    IN  IF camera.kind = "null" THEN camera.position
        ELSE IF VerticalMovement # 0
             THEN [ moved EXCEPT !.y = FloorClamped(moved.y + VerticalMovement) ]
             ELSE moved

\* variant: the pitch is stored without a limit
ClampPitchNot(p) == p

\* Math.max(-Math.PI / 2, Math.min(Math.PI / 2, p))
ClampPitch(p) == Max(-PiHalf, Min(PiHalf, p))

\* camera.rotation after updateMobileCameraRotation; lookSensitivity is
\* twice mouseSensitivity and the joystick values are in thousandths
updateMobileCameraRotation ==
    IF isMobile /\ camera.kind # "null" /\ mobileInput.look.active
    THEN [ x |-> ClampPitch(rotation.x
                            - Quot(mobileInput.look.y * 2 * mouseSensitivity, 1000)),
           y |-> rotation.y + Quot(mobileInput.look.x * 2 * mouseSensitivity, 1000) ]
    ELSE rotation

\* the places where init is suspended or has ended, so that a callback can run
IdlePoints == { "probe", "import", "running", "failed" }

\* one call of the render-loop callback.  scene.render() does not move the
\* camera: main.js assigns camera.position itself and attaches no engine
\* input, so the engine's collision and gravity step has no displacement to
\* work on.
FrameTick ==
    /\ rendering
    /\ pc \in IdlePoints
    /\ steps < MaxSteps
    /\ camera' = [ camera EXCEPT !.position = updateMovement ]
    /\ rotation' = updateMobileCameraRotation
    /\ ticks' = ticks + 1
    /\ steps' = steps + 1
    /\ lookEvent' = FALSE
    /\ UNCHANGED << pc, terrainName, logged, requests, pointerLockElement, touching, isMobile, inputVars, calls, findLocals, loadLocals,
                    terrainVars, arcDisposed, loadStatus, failedAt, pageVars >>

-----------------------------------------------------------------------------
(* Input handlers registered by setupControls and setupMobileControls *)

\* the keys updateMovement reads
Keys == { "w", "a", "s", "d", "q", "e" }

\* movementX and movementY of mouse-move events, in pixels
MouseDeltas == { [ dx |-> 0, dy |-> 785 ], [ dx |-> 300, dy |-> -900 ] }

\* clientX and clientY of canvas touches, in pixels
TouchPoints == { [ x |-> 0, y |-> 0 ], [ x |-> 40, y |-> 1500 ] }

\* the joystick element is taken to be a square of 100 pixels (its style
\* sheet is not part of the sources)
JoystickRect == [ width |-> 100, height |-> 100 ]

\* where a touch can be on a joystick, as its offset from the centre in pixels
DragPoints ==
    { [ dx |-> 0, dy |-> 0 ], [ dx |-> 9, dy |-> -12 ], [ dx |-> 0, dy |-> 30 ],
      [ dx |-> 30, dy |-> 40 ], [ dx |-> 0, dy |-> -60 ] }

Joysticks == { "movement", "look" }

Buttons == { "verticalUp", "verticalDown" }

\* an event can be handled when its handler is registered and init is not
\* executing
Listening == controlsSet /\ pc \in IdlePoints /\ steps < MaxSteps

\* setupMobileControls ran (both joystick elements are taken to exist)
MobileListening == Listening /\ isMobile

\* the variables no input handler assigns
settled ==
    << pc, terrainName, logged, requests, isMobile, ticks, calls, findLocals, loadLocals, terrainVars,
       camera, arcDisposed, loadStatus, failedAt, pageVars >>

KeyDown ==
    /\ Listening
    /\ \E k \in Keys : keys' = keys \cup { k }
    /\ steps' = steps + 1
    /\ UNCHANGED << settled, rotation, isPointerLocked, mobileInput, dragging, lastTouch,
                    drag, pointerLockElement, lookEvent, touching >>

KeyUp ==
    /\ Listening
    /\ \E k \in Keys : keys' = keys \ { k }
    /\ steps' = steps + 1
    /\ UNCHANGED << settled, rotation, isPointerLocked, mobileInput, dragging, lastTouch,
                    drag, pointerLockElement, lookEvent, touching >>

\* what document.pointerLockElement can be: the canvas, another element of
\* the page, or null
LockElements == { "canvas", "other", "null" }

\* variant: any locked element counts as the canvas
PointerLockChangeAnyElement ==
    /\ Listening
    /\ pointerLockElement' \in LockElements
    /\ isPointerLocked' = (pointerLockElement' # "null")
    /\ steps' = steps + 1
    /\ UNCHANGED << settled, rotation, keys, mobileInput, dragging, lastTouch, drag,
                    lookEvent, touching >>

\* pointerlockchange: the browser has changed the lock element, the handler
\* compares it with the canvas
PointerLockChange ==
    /\ Listening
    /\ pointerLockElement' \in LockElements
    /\ isPointerLocked' = (pointerLockElement' = "canvas")
    /\ steps' = steps + 1
    /\ UNCHANGED << settled, rotation, keys, mobileInput, dragging, lastTouch, drag,
                    lookEvent, touching >>

\* the mousemove handler
MouseMove ==
    /\ Listening
    /\ \E d \in MouseDeltas :
         IF isPointerLocked /\ camera.kind # "null"
         THEN rotation' = [ x |-> ClampPitch(rotation.x + d.dy * mouseSensitivity),
                            y |-> rotation.y + d.dx * mouseSensitivity ]
         ELSE UNCHANGED rotation
    /\ steps' = steps + 1
    /\ lookEvent' = TRUE
    /\ UNCHANGED << settled, inputVars, pointerLockElement, touching >>

\* variant: a drag beyond maxDistance is scaled like one within it
normalizeJoystickInputUnbounded(x, y, centerX, centerY, maxDistance) ==
    LET deltaX == x - centerX
        deltaY == y - centerY
        distance == Sqrt(deltaX * deltaX + deltaY * deltaY)
    IN  [ x |-> Quot(deltaX * 1000, maxDistance),
          y |-> Quot(deltaY * 1000, maxDistance),
          distance |-> distance ]

\* normalizeJoystickInput, its x and y in thousandths; the drag points are
\* chosen with a whole-numbered distance, so that Sqrt is exact
normalizeJoystickInput(x, y, centerX, centerY, maxDistance) ==
    LET deltaX == x - centerX
        deltaY == y - centerY
        distance == Sqrt(deltaX * deltaX + deltaY * deltaY)
    IN  IF distance > maxDistance
        THEN [ x |-> Quot(Quot(deltaX * 1000, distance) * maxDistance, maxDistance),
               y |-> Quot(Quot(deltaY * 1000, distance) * maxDistance, maxDistance),
               distance |-> maxDistance ]
        ELSE [ x |-> Quot(deltaX * 1000, maxDistance),
               y |-> Quot(deltaY * 1000, maxDistance),
               distance |-> distance ]

\* centerX, centerY and maxDistance of setupJoystick
JoystickCenter == [ x |-> JoystickRect.width \div 2, y |-> JoystickRect.height \div 2 ]

JoystickMaxDistance == JoystickRect.width \div 2 - 20

\* handleStart: touchstart or mousedown on a joystick
JoystickStart ==
    /\ MobileListening
    /\ \E type \in Joysticks :
         /\ dragging' = [ dragging EXCEPT ![type] = TRUE ]
         /\ mobileInput' = [ mobileInput EXCEPT ![type].active = TRUE ]
         /\ lookEvent' = (lookEvent \/ type = "look")
    /\ steps' = steps + 1
    /\ UNCHANGED << settled, rotation, keys, isPointerLocked, lastTouch, drag,
                    pointerLockElement, touching >>

\* variant: the handler stores x now and leaves y to a later event
JoystickMoveXOnly ==
    /\ MobileListening
    /\ \E type \in Joysticks : \E at \in DragPoints :
         /\ lookEvent' = (lookEvent \/ type = "look")
         /\ IF dragging[type]
            THEN LET normalized ==
                         normalizeJoystickInput(JoystickCenter.x + at.dx,
                                                JoystickCenter.y + at.dy,
                                                JoystickCenter.x, JoystickCenter.y,
                                                JoystickMaxDistance)
                 IN  /\ mobileInput' = [ mobileInput EXCEPT ![type].x = normalized.x ]
                     /\ drag' = [ type |-> type, dx |-> at.dx, dy |-> at.dy ]
            ELSE UNCHANGED << mobileInput, drag >>
    /\ steps' = steps + 1
    /\ UNCHANGED << settled, rotation, keys, isPointerLocked, dragging, lastTouch,
                    pointerLockElement, touching >>

\* variant: a move is taken whether or not the joystick is being dragged
JoystickMoveUndragged ==
    /\ MobileListening
    /\ \E type \in Joysticks : \E at \in DragPoints :
         /\ lookEvent' = (lookEvent \/ type = "look")
         /\ LET normalized ==
                     normalizeJoystickInput(JoystickCenter.x + at.dx,
                                            JoystickCenter.y + at.dy,
                                            JoystickCenter.x, JoystickCenter.y,
                                            JoystickMaxDistance)
            IN  /\ mobileInput' = [ mobileInput EXCEPT ![type].x = normalized.x,
                                                       ![type].y = -normalized.y ]
                /\ drag' = [ type |-> type, dx |-> at.dx, dy |-> at.dy ]
    /\ steps' = steps + 1
    /\ UNCHANGED << settled, rotation, keys, isPointerLocked, dragging, lastTouch,
                    pointerLockElement, touching >>

\* handleMove: touchmove or mousemove on a joystick
JoystickMove ==
    /\ MobileListening
    /\ \E type \in Joysticks : \E at \in DragPoints :
         /\ lookEvent' = (lookEvent \/ type = "look")
         /\ IF dragging[type]
            THEN LET normalized ==
                         normalizeJoystickInput(JoystickCenter.x + at.dx,
                                                JoystickCenter.y + at.dy,
                                                JoystickCenter.x, JoystickCenter.y,
                                                JoystickMaxDistance)
                 IN  /\ mobileInput' = [ mobileInput EXCEPT ![type].x = normalized.x,
                                                            ![type].y = -normalized.y ]
                     /\ drag' = [ type |-> type, dx |-> at.dx, dy |-> at.dy ]
            ELSE UNCHANGED << mobileInput, drag >>
    /\ steps' = steps + 1
    /\ UNCHANGED << settled, rotation, keys, isPointerLocked, dragging, lastTouch,
                    pointerLockElement, touching >>

\* handleEnd: touchend, touchcancel, mouseup or mouseleave on a joystick
JoystickEnd ==
    /\ MobileListening
    /\ \E type \in Joysticks :
         /\ dragging' = [ dragging EXCEPT ![type] = FALSE ]
         /\ mobileInput' = [ mobileInput EXCEPT ![type] = RestingJoystick ]
         /\ drag' = IF drag.type = type THEN NoDrag ELSE drag
         /\ lookEvent' = (lookEvent \/ type = "look")
    /\ steps' = steps + 1
    /\ UNCHANGED << settled, rotation, keys, isPointerLocked, lastTouch, pointerLockElement, touching >>

\* touchstart on the up or the down button
ButtonTouchStart ==
    /\ MobileListening
    /\ \E b \in Buttons :
         /\ mobileInput' = [ mobileInput EXCEPT ![b] = TRUE ]
         /\ touching' = touching \cup { b }
    /\ steps' = steps + 1
    /\ UNCHANGED << settled, rotation, keys, isPointerLocked, dragging, lastTouch, drag,
                    pointerLockElement, lookEvent >>

\* touchend on the up or the down button
ButtonTouchEnd ==
    /\ MobileListening
    /\ \E b \in Buttons :
         /\ mobileInput' = [ mobileInput EXCEPT ![b] = FALSE ]
         /\ touching' = touching \ { b }
    /\ steps' = steps + 1
    /\ UNCHANGED << settled, rotation, keys, isPointerLocked, dragging, lastTouch, drag,
                    pointerLockElement, lookEvent >>

\* the browser cancels a touch in progress on a button (touchcancel): the
\* buttons have no listener for it, so nothing of the viewer changes
ButtonTouchCancel ==
    /\ MobileListening
    /\ \E b \in touching : touching' = touching \ { b }
    /\ steps' = steps + 1
    /\ UNCHANGED << settled, rotation, inputVars, pointerLockElement, lookEvent >>

\* variant: the canvas turns the camera also while the look joystick is in use
CanvasTouchMoveDespiteJoystick ==
    /\ MobileListening
    /\ \E n \in 1..2 : \E at \in TouchPoints :
         IF n = 1
         THEN /\ IF lastTouch.set /\ camera.kind # "null"
                 THEN rotation' =
                        [ x |-> ClampPitch(rotation.x
                                  + ((at.y - lastTouch.y) * mouseSensitivity) \div 2),
                          y |-> rotation.y
                                  + ((at.x - lastTouch.x) * mouseSensitivity) \div 2 ]
                 ELSE UNCHANGED rotation
              /\ lastTouch' = [ set |-> TRUE, x |-> at.x, y |-> at.y ]
         ELSE UNCHANGED << rotation, lastTouch >>
    /\ steps' = steps + 1
    /\ lookEvent' = TRUE
    /\ UNCHANGED << settled, keys, isPointerLocked, mobileInput, dragging, drag,
                    pointerLockElement, touching >>

\* handleCanvasTouchMove with n touches, the first of them at the point at
CanvasTouchMove ==
    /\ MobileListening
    /\ \E n \in 1..2 : \E at \in TouchPoints :
         IF ~mobileInput.look.active /\ n = 1
         THEN /\ IF lastTouch.set /\ camera.kind # "null"
                 THEN rotation' =
                        [ x |-> ClampPitch(rotation.x
                                  + ((at.y - lastTouch.y) * mouseSensitivity) \div 2),
                          y |-> rotation.y
                                  + ((at.x - lastTouch.x) * mouseSensitivity) \div 2 ]
                 ELSE UNCHANGED rotation
              /\ lastTouch' = [ set |-> TRUE, x |-> at.x, y |-> at.y ]
         ELSE UNCHANGED << rotation, lastTouch >>
    /\ steps' = steps + 1
    /\ lookEvent' = TRUE
    /\ UNCHANGED << settled, keys, isPointerLocked, mobileInput, dragging, drag,
                    pointerLockElement, touching >>

\* handleCanvasTouchEnd
CanvasTouchEnd ==
    /\ MobileListening
    /\ lastTouch' = NoTouch
    /\ steps' = steps + 1
    /\ lookEvent' = TRUE
    /\ UNCHANGED << settled, rotation, keys, isPointerLocked, mobileInput, dragging, drag,
                    pointerLockElement, touching >>

-----------------------------------------------------------------------------
(* Startup, with frames but without user input *)

Next ==
    \/ Bootstrap
    \/ ProbeResponds
    \/ FindReturn
    \/ ImportResponds
    \/ BuildEntity
    \/ ComputeBounds
    \/ ProcessMeshes
    \/ LoadCatch
    \/ SetupFirstPersonCamera
    \/ PositionCamera
    \/ SetupControls
    \/ StartRenderLoop
    \/ HideLoadingScreen
    \/ FrameTick

Spec == Init /\ [][Next]_vars

\* a step of init or of a continuation of it
StartupStep ==
    \/ Bootstrap
    \/ ProbeResponds
    \/ FindReturn
    \/ ImportResponds
    \/ BuildEntity
    \/ ComputeBounds
    \/ ProcessMeshes
    \/ LoadCatch
    \/ SetupFirstPersonCamera
    \/ PositionCamera
    \/ SetupControls
    \/ StartRenderLoop
    \/ HideLoadingScreen

\* the viewer as the constructor sets it up, on a device without touch input
InitLive == Init /\ terrainName = "BlockAB" /\ ~isMobile

\* startup in which every probe and the import are answered and every
\* continuation is run: JavaScript runs a ready continuation to its next await
SpecLive == InitLive /\ [][Next]_vars /\ WF_vars(StartupStep)

\* the same viewer, its requests logged
InitRequests == Constructed /\ terrainName = "BlockAB" /\ ~isMobile /\ logged = TRUE

SpecRequests == InitRequests /\ [][Next]_vars

-----------------------------------------------------------------------------
(* The running viewer: frames and user input after a completed startup *)

\* the scene after loadTerrain imported a single part with the box given
SinglePartScene(box) ==
    [ meshes |-> [ id \in { GroundPlaneId, PartId(1) } |->
                     IF id = GroundPlaneId THEN GroundPlaneMesh
                     ELSE ProcessMesh(ImportedMesh(box, TRUE)) ],
      box |-> box,
      terrainMinY |-> box.minimum.y - TerrainBuffer ]

\* the terrains the running viewer is followed on: the second and the third
\* of ImportBoxes, one below and one above the first-person camera's start
FrameScenes ==
    { SinglePartScene([minimum |-> Vec(0, -5000, 0), maximum |-> Vec(10000, 2000, 10000)]),
      SinglePartScene([minimum |-> Vec(-4000, 3000, -6000), maximum |-> Vec(4000, 9000, 6000)]) }

\* heights the camera can be at: where startup leaves it, on the floor
\* (after flying down, or after any vertical step from below it) and half a
\* touch-button step above the floor
FrameHeights(scene) ==
    { playerHeight, scene.terrainMinY + playerHeight,
      scene.terrainMinY + playerHeight + (verticalSpeed \div 2) }

\* orientations the camera can have: as startup leaves it, and after looking
\* around, up or down to, or close to, the limit
FrameRotations ==
    LookAtRotations \cup
      { [ x |-> 436700, y |-> 2356194 ], [ x |-> 1570000, y |-> 2356194 ],
        [ x |-> -PiHalf, y |-> 3141593 ] }

InitFrame ==
    /\ pc = "running"
    /\ terrainName = "BlockAB"
    /\ fileIdx = 0
    /\ probed = << >>
    /\ found = ""
    /\ objFileName = ""
    /\ importOutcome = "one"
    /\ resultMeshes = << >>
    /\ \E scene \in FrameScenes :
         /\ meshes = scene.meshes
         /\ terrainMinY = scene.terrainMinY
         /\ \E y \in FrameHeights(scene) :
              camera = [ OverviewPlacement(UniversalCamera, scene.box)
                           EXCEPT !.position.y = y ]
    /\ farmMesh = PartId(1)
    /\ arcDisposed = TRUE
    /\ loadResult = "imported"
    /\ caught = "none"
    /\ placeholderCalls = 0
    /\ failedAt = "none"
    /\ errorShown = FALSE
    /\ loadingHidden = TRUE
    /\ controlsSet = TRUE
    /\ rendering = TRUE
    /\ calls = [ findObjFile |-> 1, loadTerrain |-> 1, positionCameraForTerrain |-> 1 ]
    /\ logged = FALSE
    /\ requests = << >>
    /\ rotation \in FrameRotations
    /\ isMobile \in BOOLEAN
    /\ keys = { }
    /\ isPointerLocked = FALSE
    /\ mobileInput = RestingMobileInput
    /\ dragging = [ movement |-> FALSE, look |-> FALSE ]
    /\ lastTouch = NoTouch
    /\ drag = NoDrag
    /\ steps = 0
    /\ ticks = 0
    /\ pointerLockElement = "null"
    /\ lookEvent = FALSE
    /\ touching = { }

NextFrame ==
    \/ FrameTick
    \/ KeyDown
    \/ KeyUp
    \/ PointerLockChange
    \/ MouseMove
    \/ JoystickStart
    \/ JoystickMove
    \/ JoystickEnd
    \/ ButtonTouchStart
    \/ ButtonTouchEnd
    \/ CanvasTouchMove
    \/ CanvasTouchEnd

SpecFrame == InitFrame /\ [][NextFrame]_vars

\* the same, with the touches the browser cancels: no handler of the viewer
\* runs for them
NextCancel ==
    \/ NextFrame
    \/ ButtonTouchCancel

SpecCancel == InitFrame /\ [][NextCancel]_vars

TypeOK ==
    /\ pc \in { "init", "probe", "findReturn", "import", "build", "bounds",
                "process", "catch", "loaded", "fpCamera", "positioned",
                "controls", "renderLoop", "running", "failed" }
    /\ terrainMinY \in Int
    /\ fileIdx \in 0..6
    /\ rotation.x \in Int /\ rotation.y \in Int
    /\ isMobile \in BOOLEAN
    /\ keys \subseteq Keys
    /\ isPointerLocked \in BOOLEAN
    /\ mobileInput.movement.active \in BOOLEAN /\ mobileInput.look.active \in BOOLEAN
    /\ mobileInput.verticalUp \in BOOLEAN /\ mobileInput.verticalDown \in BOOLEAN
    /\ lastTouch.set \in BOOLEAN
    /\ drag.type \in Joysticks \cup { "none" }
    /\ steps \in 0..MaxSteps
    /\ ticks \in 0..steps
    /\ \A i \in 1..Len(requests) :
         /\ requests[i].kind \in { "probe", "import" }
         /\ requests[i].answer \in { "pending", "ok", "failed" }
    /\ logged \in BOOLEAN
    /\ touching \subseteq Buttons
    /\ pointerLockElement \in LockElements
    /\ lookEvent \in BOOLEAN

-----------------------------------------------------------------------------
(* Properties *)

\* pc values at which loadTerrain has returned to init
AfterLoad == { "loaded", "fpCamera", "positioned", "controls", "renderLoop", "running" }

\* pc values inside loadTerrain (findObjFile included)
InLoad == { "probe", "findReturn", "import", "build", "bounds", "process", "catch" }

\* the meshes the import returned
ImportedIds == { id \in DOMAIN meshes : id[1] = "part" }

\* the terrain entity's meshes: farmMesh and the meshes parented to it
TerrainMeshes == { id \in DOMAIN meshes : id = farmMesh \/ meshes[id].parent = farmMesh }

NoHit(outcomes) == \A i \in 1..Len(outcomes) : outcomes[i] # "exists"

\* C1: whatever the probes and the import answer (reject, zero, one or several
\* meshes), loadTerrain does not get stuck and throws nothing to init, and
\* when it has returned farmMesh is not null, terrainMinY is a number and at
\* least one terrain mesh has checkCollisions = true.
C1_LoaderTotality ==
    /\ failedAt # "loadTerrain"
    /\ pc \in InLoad => ENABLED Next
    /\ pc \in AfterLoad =>
         /\ farmMesh # Null
         /\ farmMesh \in DOMAIN meshes
         /\ terrainMinY \in Int
         /\ \E id \in TerrainMeshes : meshes[id].checkCollisions

C1_Witness ==
    /\ pc = "loaded"
    /\ importOutcome = "throws"
    /\ farmMesh = PlaceholderId

\* C2 (as claimed): once loadTerrain has returned, terrainMinY is the minimum
\* Y of farmMesh's bounding box minus 1, for imported and placeholder terrain.
C2_FloorIsBoxMinMinusOne ==
    pc \in AfterLoad => terrainMinY = getBoundingInfo(farmMesh).minimum.y - 1000

\* C3: a failure inside loadTerrain (import rejected, no meshes, an exception
\* while building the entity or computing its bounds) is in the catch block
\* or has ended in exactly one createPlaceholderTerrain call whose mesh is
\* farmMesh; init's catch block never sees it (init has gone on, or a later
\* step of init has failed).
C3_FailureContained ==
    /\ failedAt # "loadTerrain"
    /\ (caught # "none" \/ importOutcome \in { "throws", "zero" }) =>
         \/ pc = "catch" /\ placeholderCalls = 0
         \/ /\ pc \in AfterLoad \cup { "failed" }
            /\ loadResult = "placeholder"
            /\ placeholderCalls = 1
            /\ farmMesh = PlaceholderId
    /\ placeholderCalls > 0 => caught # "none"

C3_Witness ==
    /\ pc = "loaded"
    /\ caught = "bounds"
    /\ importOutcome = "many"
    /\ loadResult = "placeholder"

\* the order of candidates the resolver is said to probe
C4_Order(id) ==
    << "terrain.obj", id \o ".obj", "Geordie.obj", "model.obj", "mesh.obj", "farm.obj" >>

\* C4: the candidates are probed in the fixed order, one after the other, and
\* the name returned after a hit is the first candidate that reported
\* existing: all earlier ones were probed and did not; without a hit the
\* resolver returns only after all six were probed.
C4_FirstExisting ==
    /\ pc = "probe" => Len(probed) = fileIdx - 1
    /\ pc = "findReturn" =>
         LET k == Len(probed)
         IN  IF probed[k] = "exists"
             THEN /\ found = C4_Order(terrainName)[k]
                  /\ NoHit(SubSeq(probed, 1, k - 1))
             ELSE /\ k = 6
                  /\ NoHit(probed)

C4_Witness ==
    /\ pc = "findReturn"
    /\ probed = << "missing", "error", "exists" >>
    /\ found = "Geordie.obj"

\* C5: the resolver returns a non-empty name, and "<id>.obj" when no probe
\* reported existing.
C5_NonEmptyWithDefault ==
    pc = "findReturn" =>
        /\ Len(found) > 0
        /\ NoHit(probed) => found = terrainName \o ".obj"

C5_Witness ==
    /\ pc = "findReturn"
    /\ Len(probed) = 6
    /\ NoHit(probed)
    /\ \E i \in 1..6 : probed[i] = "error"
    /\ \E i \in 1..6 : probed[i] = "missing"
    /\ terrainName = "BlockAB"
    /\ found = "BlockAB.obj"

\* C6: a probe that raised an error did not make the resolver fail: after it
\* the resolver is at the next candidate, or, after the last candidate, returns
\* the default name, just as after a probe that reported non-existence.
C6_ErrorIsMissing ==
    \A i \in 1..Len(probed) :
        probed[i] \in { "error", "missing" } =>
            /\ pc \in { "probe", "findReturn" }
            /\ caught = "none"
            /\ i = Len(probed) =>
                 IF i < 6
                 THEN pc = "probe" /\ fileIdx = i + 1
                 ELSE pc = "findReturn" /\ found = terrainName \o ".obj"

C6_Witness ==
    /\ pc = "probe"
    /\ probed = << "error" >>
    /\ fileIdx = 2

\* C7: once the entity is built from a successful import, farmMesh is the
\* returned mesh when there is one, and otherwise a new anchor node that is
\* none of the returned meshes and is the parent of each of them.
C7_SingleOrAnchor ==
    (pc \in { "bounds", "process" } \/ loadResult = "imported") =>
        IF Cardinality(ImportedIds) = 1
        THEN /\ farmMesh \in ImportedIds
             /\ TerrainParentId \notin DOMAIN meshes
        ELSE /\ Cardinality(ImportedIds) > 1
             /\ farmMesh = TerrainParentId
             /\ farmMesh \notin ImportedIds
             /\ \A id \in ImportedIds : meshes[id].parent = farmMesh

C7_Witness ==
    /\ pc = "loaded"
    /\ loadResult = "imported"
    /\ Cardinality(ImportedIds) = 3
    /\ farmMesh = TerrainParentId

\* the lowest minimum Y over the returned parts
LowestPartY ==
    CHOOSE y \in { meshes[id].box.minimum.y : id \in ImportedIds } :
        \A id \in ImportedIds : y <= meshes[id].box.minimum.y

\* C8 (as claimed): when several parts were imported, terrainMinY is the
\* lowest minimum Y over all parts minus 1.
C8_FloorFromAllParts ==
    (loadResult = "imported" /\ Cardinality(ImportedIds) > 1) =>
        terrainMinY = LowestPartY - 1000

C10_ClaimedSpawn(box) ==
    LET cx == (box.minimum.x + box.maximum.x) \div 2
        cy == (box.minimum.y + box.maximum.y) \div 2
        cz == (box.minimum.z + box.maximum.z) \div 2
        ez == box.maximum.z - box.minimum.z
    IN  Vec(cx, Max(cy, box.maximum.y) + 1800, cz + Max((4 * ez) \div 10, 10000))

\* C10 (as claimed): after positionCameraForTerrain ran on the first-person
\* camera, its position is the spawn computed from the terrain's bounding
\* box, and the overview policy (target, radius) was not applied to it.
C10_WalkingSpawn ==
    (pc \in { "positioned", "controls", "renderLoop", "running" }
        /\ camera.kind = "UniversalCamera") =>
        /\ camera.position = C10_ClaimedSpawn(getBoundingInfo(farmMesh))
        /\ ~camera.hasRadius

\* C11 (as claimed): once positionCameraForTerrain has placed the first-person
\* camera, the Z offset of its position from the center of the terrain's
\* bounding box is at least 10 units, and it is 0.4 times the box's Z extent
\* whenever that is more than 10 units.
C11_SpawnZOffset ==
    (pc \in { "positioned", "controls", "renderLoop", "running" }
        /\ camera.kind = "UniversalCamera") =>
        LET box == getBoundingInfo(farmMesh)
            offset == camera.position.z - Center(box).z
            scaled == (Size(box).z * 4) \div 10
        IN  /\ offset >= 10000
            /\ scaled > 10000 => offset = scaled

\* C12: the camera kind goes from overview to first-person at most once and
\* never back: a first-person camera stays one; the overview camera is
\* replaced only by the first-person camera, only in the step that follows
\* loadTerrain's return, and it is disposed in that very step; a camera that
\* is an overview camera is never a disposed one.
C12_CameraSwitchOnce ==
    [][ /\ camera.kind = "UniversalCamera" => camera'.kind = "UniversalCamera"
        /\ (camera.kind = "ArcRotateCamera" /\ camera'.kind # "ArcRotateCamera") =>
             /\ camera'.kind = "UniversalCamera"
             /\ pc = "loaded"
             /\ loadResult \in { "imported", "placeholder" }
             /\ ~arcDisposed
             /\ arcDisposed'
        /\ camera'.kind = "ArcRotateCamera" => ~arcDisposed' ]_vars

\* the first-person camera is in use, frames have run, the overview camera is gone
C12_Witness ==
    /\ pc = "running"
    /\ ticks > 0
    /\ camera.kind = "UniversalCamera"
    /\ arcDisposed

\* the pitch changes one step of look input can ask for: a mouse move, a
\* canvas touch drag between two touch points, the look joystick's current
\* deflection at a frame tick, or none
C13_PitchDeltas ==
    { 0 }
    \cup { d.dy * mouseSensitivity : d \in MouseDeltas }
    \cup { ((a.y - b.y) * mouseSensitivity) \div 2 : a \in TouchPoints, b \in TouchPoints }
    \cup { -Quot(mobileInput.look.y * 2 * mouseSensitivity, 1000) }

\* C13: through every sequence of mouse moves, look-joystick input, canvas
\* touch drags and frame ticks the camera pitch stays within -pi/2 .. pi/2,
\* and every step leaves the pitch at the old pitch plus the step's look
\* delta, cut off at exactly pi/2 or -pi/2 when the sum passes the limit.
C13_PitchWithinLimits ==
    /\ [](rotation.x >= -PiHalf /\ rotation.x <= PiHalf)
    /\ [][ \E d \in C13_PitchDeltas :
             rotation'.x = IF rotation.x + d > PiHalf THEN PiHalf
                           ELSE IF rotation.x + d < -PiHalf THEN -PiHalf
                           ELSE rotation.x + d ]_vars

\* look input has carried the pitch to the upper limit
C13_Witness ==
    /\ steps > 0
    /\ rotation.x = PiHalf

\* C14: a frame whose vertical movement is not zero leaves the camera at or
\* above terrainMinY + playerHeight, and a downward one that starts exactly
\* at that height leaves the camera exactly there.
C14_FlyStopsAtFloor ==
    [][ (ticks' = ticks + 1 /\ VerticalMovement # 0) =>
          /\ camera'.position.y >= terrainMinY + playerHeight
          /\ (camera.position.y = terrainMinY + playerHeight /\ VerticalMovement < 0) =>
               camera'.position.y = terrainMinY + playerHeight ]_vars

\* floor -6, player height 1.8: a frame with Q held has left the camera at -4.2
C14_Witness ==
    /\ ticks > 0
    /\ "q" \in keys
    /\ terrainMinY = -6000
    /\ camera.position.y = -4200

\* C15 (as claimed): once the render loop runs, after every frame tick the
\* camera is at or above terrainMinY + playerHeight, whatever the input.
C15_NeverBelowFloor ==
    (rendering /\ ticks > 0) => camera.position.y >= terrainMinY + playerHeight

\* C16: in every frame the horizontal part of updateMovement adds nothing to
\* the camera's Y, whatever keys are held, whatever the movement joystick
\* reports and however the camera is pitched: the frame leaves Y unchanged
\* when there is no vertical movement, and otherwise changes it by the
\* vertical movement alone (stopped at the floor height).
C16_HorizontalKeepsY ==
    [][ ticks' = ticks + 1 =>
          camera'.position.y =
            IF VerticalMovement = 0 THEN camera.position.y
            ELSE Max(camera.position.y + VerticalMovement,
                     terrainMinY + playerHeight) ]_vars

\* a frame has moved a pitched camera sideways or forward, at its start height
C16_Witness ==
    /\ ticks > 0
    /\ keys = { "w" }
    /\ rotation.x = 436700
    /\ camera.position.x # 0
    /\ camera.position.y = playerHeight

\* C17: after a joystick move was handled, the stored joystick vector (whose
\* y is the negated result of normalizeJoystickInput) has both components
\* within -1 .. 1 and a length of at most 1; when the touch was farther than
\* maxDistance from the centre its length is exactly 1 and the result points
\* the same way as the raw displacement (thousandths).
C17_JoystickNormalized ==
    drag.type # "none" =>
        LET nx == mobileInput[drag.type].x
            ny == -mobileInput[drag.type].y
            len2 == nx * nx + ny * ny
        IN  /\ nx >= -1000 /\ nx <= 1000
            /\ ny >= -1000 /\ ny <= 1000
            /\ len2 <= 1000 * 1000
            /\ drag.dx * drag.dx + drag.dy * drag.dy
                   > JoystickMaxDistance * JoystickMaxDistance =>
                 /\ len2 = 1000 * 1000
                 /\ nx * drag.dy - ny * drag.dx = 0
                 /\ nx * drag.dx + ny * drag.dy > 0

\* a drag to (30, 40) from the centre, beyond maxDistance = 30, was handled
C17_Witness ==
    /\ drag = [ type |-> "movement", dx |-> 30, dy |-> 40 ]
    /\ mobileInput.movement = [ x |-> 600, y |-> -800, active |-> TRUE ]

\* the viewer can be walked in: first-person camera, frames running, loading
\* screen gone, no error message
C18_Walkable ==
    /\ pc = "running"
    /\ camera.kind = "UniversalCamera"
    /\ rendering
    /\ loadingHidden
    /\ ~errorShown

\* init steps that are not part of loadTerrain
C18_OutsideLoad ==
    { "bootstrap", "setupFirstPersonCamera", "positionCameraForTerrain", "setupControls" }

\* C18: when every probe and the import are answered, then whatever they
\* answer (and unless an init step outside loadTerrain throws) startup
\* reaches the walkable state and stays in it: first-person camera active,
\* render loop running, loading screen hidden, no error message shown.
C18_EndsWalkable ==
    [](failedAt \notin C18_OutsideLoad) => <>[]C18_Walkable

\* walkable on the placeholder, after the import was rejected
C18_Witness ==
    /\ C18_Walkable
    /\ ticks > 0
    /\ loadResult = "placeholder"
    /\ caught = "import"

\* C19: when an init step outside loadTerrain throws, init has stopped there:
\* the error message is shown, the loading screen is not hidden, the steps
\* after the failed one have not run, and from then on nothing changes any
\* more (no later step, no retry); and the loading screen is hidden only when
\* every init step has completed.
C19_InitFailureStops ==
    /\ [](failedAt # "none" =>
            /\ failedAt \in C18_OutsideLoad
            /\ pc = "failed"
            /\ errorShown
            /\ ~loadingHidden
            /\ ~rendering
            /\ ~controlsSet
            /\ failedAt = "bootstrap" => loadResult = "none" /\ camera.kind = "null"
            /\ failedAt = "setupFirstPersonCamera" => camera.kind = "ArcRotateCamera"
            /\ failedAt \in { "bootstrap", "setupFirstPersonCamera" } =>
                 calls.positionCameraForTerrain = 0)
    /\ [](loadingHidden =>
            /\ failedAt = "none"
            /\ ~errorShown
            /\ pc = "running"
            /\ loadResult \in { "imported", "placeholder" }
            /\ camera.kind = "UniversalCamera"
            /\ calls.positionCameraForTerrain = 1
            /\ controlsSet
            /\ rendering)
    /\ [][failedAt # "none" => UNCHANGED vars]_vars

\* setupControls threw: the error is shown over the loading screen
C19_Witness ==
    /\ failedAt = "setupControls"
    /\ errorShown
    /\ ~loadingHidden
    /\ camera.kind = "UniversalCamera"

\* C20: findObjFile, loadTerrain and positionCameraForTerrain are each called
\* at most once, and exactly once in a completed startup; the import is not
\* issued before findObjFile has returned, positionCameraForTerrain is not
\* called before loadTerrain has returned, and no frame callback runs before
\* all three have completed.
C20_OnceInOrderBeforeFrames ==
    /\ calls.findObjFile <= 1
    /\ calls.loadTerrain <= 1
    /\ calls.positionCameraForTerrain <= 1
    /\ (pc \in { "import", "build", "bounds", "process" } \/ importOutcome # "pending") =>
         calls.findObjFile = 1 /\ fileIdx = 0
    /\ loadResult # "none" =>
         calls.findObjFile = 1 /\ calls.loadTerrain = 1 /\ pc \notin InLoad
    /\ calls.positionCameraForTerrain = 1 => loadResult # "none"
    /\ pc = "running" => calls = [ findObjFile |-> 1, loadTerrain |-> 1,
                                  positionCameraForTerrain |-> 1 ]
    /\ ticks > 0 =>
         /\ calls = [ findObjFile |-> 1, loadTerrain |-> 1,
                      positionCameraForTerrain |-> 1 ]
         /\ loadResult # "none"
         /\ pc = "running"

\* frames run after the three startup stages ran once each
C20_Witness ==
    /\ ticks > 1
    /\ calls = [ findObjFile |-> 1, loadTerrain |-> 1, positionCameraForTerrain |-> 1 ]
    /\ loadResult = "imported"

\* a position a collision-aware update would not move the camera to: one
\* strictly inside the bounding box of a mesh with checkCollisions (the box
\* stands for the mesh's solid; the camera's ellipsoid is left out)
C21_Obstructed(p) ==
    \E id \in DOMAIN meshes :
        /\ meshes[id].checkCollisions
        /\ meshes[id].box.minimum.x < p.x /\ p.x < meshes[id].box.maximum.x
        /\ meshes[id].box.minimum.y < p.y /\ p.y < meshes[id].box.maximum.y
        /\ meshes[id].box.minimum.z < p.z /\ p.z < meshes[id].box.maximum.z

\* C21 (as claimed): a frame applies the horizontal displacement through the
\* collision-aware position update, so when the wanted displacement would
\* carry the camera from a free position into a colliding mesh, the camera
\* does not end the frame displaced by the raw wanted amount.
C21_MovesThroughCollisions ==
    [][ (/\ ticks' = ticks + 1
         /\ HorizontalStep # Zero
         /\ ~C21_Obstructed(camera.position)
         /\ C21_Obstructed(Vec(camera.position.x + HorizontalStep.x,
                               camera.position.y,
                               camera.position.z + HorizontalStep.z))) =>
          ~(/\ camera'.position.x = camera.position.x + HorizontalStep.x
            /\ camera'.position.z = camera.position.z + HorizontalStep.z) ]_vars

\* C22 (as claimed): a step that is not a frame tick (an input event) leaves
\* the camera's position and orientation as they are; they change only
\* inside a frame tick.
C22_CameraChangesOnlyInFrames ==
    [][ ticks' = ticks =>
          /\ rotation' = rotation
          /\ camera'.position = camera.position ]_vars


\* C23: look input is edge-triggered: a frame that follows no mouse move, no
\* canvas touch and no look-joystick event since the previous frame leaves yaw
\* and pitch unchanged, also while the look joystick is held deflected.
\* Refuted: updateMobileCameraRotation adds look.x and look.y in every frame
\* while the look joystick is active; they are reset only by handleEnd.
C23_LookEdgeTriggered ==
    [][ (ticks' = ticks + 1 /\ ~lookEvent) => rotation' = rotation ]_vars


\* C24 (as claimed): within a frame the look input is applied to yaw and pitch
\* before forward and right are derived, so the horizontal displacement of
\* the frame is the one computed from the orientation the frame ends with.
\* Refuted: the callback runs updateMovement first and
\* updateMobileCameraRotation after it.
C24_LookBeforeMove ==
    [][ (ticks' = ticks + 1 /\ camera.kind # "null") =>
          /\ camera'.position.x = camera.position.x + HorizontalStep'.x
          /\ camera'.position.z = camera.position.z + HorizontalStep'.z ]_vars


\* C25: isPointerLocked is true exactly when the last pointerlockchange found
\* the canvas to be the lock element (it starts false, like the lock), and a
\* mouse move handled while it is false leaves yaw and pitch unchanged: a
\* step outside a frame that changes the orientation without touching the
\* stored touch point happens only while the pointer is locked.
C25_MouseOnlyWhileLocked ==
    [][ /\ isPointerLocked' = (pointerLockElement' = "canvas")
        /\ (ticks' = ticks /\ lastTouch' = lastTouch /\ rotation' # rotation) =>
              isPointerLocked ]_vars

\* a mouse move has turned the camera while the pointer was locked, and the
\* lock has since gone to another element
C25_Witness ==
    /\ pointerLockElement = "other"
    /\ ~isPointerLocked
    /\ ticks = 0
    /\ ~lastTouch.set
    /\ rotation \notin FrameRotations


\* C26: while the look joystick is active a canvas touch-move changes neither
\* yaw and pitch nor the stored touch point (the point can only be cleared,
\* by a touch end; the orientation can only be changed by a frame or by a
\* mouse move under pointer lock).  When a touch-move does store a new point
\* after an earlier one, yaw and pitch have moved by the distance between the
\* two points times mouseSensitivity * 0.5, the pitch kept within a quarter
\* turn; the first point of a touch turns nothing.
C26_CanvasTouchYieldsToJoystick ==
    [][ /\ mobileInput.look.active =>
              /\ lastTouch' = lastTouch \/ lastTouch' = NoTouch
              /\ (ticks' = ticks /\ ~isPointerLocked) => rotation' = rotation
        /\ (lastTouch'.set /\ lastTouch' # lastTouch) =>
              IF lastTouch.set
              THEN /\ rotation'.y =
                        rotation.y + (lastTouch'.x - lastTouch.x) * (mouseSensitivity \div 2)
                   /\ rotation'.x =
                        Max(-PiHalf, Min(PiHalf,
                            rotation.x + (lastTouch'.y - lastTouch.y) * (mouseSensitivity \div 2)))
              ELSE rotation' = rotation ]_vars

\* a canvas drag has turned the camera, and a touch-move that came after the
\* look joystick was taken has left the stored point where it was
C26_Witness ==
    /\ mobileInput.look.active
    /\ lastTouch = [ set |-> TRUE, x |-> 40, y |-> 1500 ]
    /\ rotation \notin FrameRotations
    /\ ticks = 0
    /\ ~isPointerLocked


\* C27: in a frame the up key (E) alone raises the camera by verticalSpeed and
\* the down key (Q) alone lowers it by verticalSpeed (not below the floor);
\* both keys together leave camera Y as it was; with no key held one touch
\* button alone moves the camera by half of verticalSpeed in its direction,
\* and nothing held leaves camera Y as it was.
C27_VerticalContribution ==
    [][ (ticks' = ticks + 1 /\ camera.kind # "null") =>
          LET up == "e" \in keys
              down == "q" \in keys
              buttonUp == isMobile /\ mobileInput.verticalUp
              buttonDown == isMobile /\ mobileInput.verticalDown
              Lifted(by) ==
                  camera'.position.y =
                      Max(camera.position.y + by, terrainMinY + playerHeight)
          IN  /\ (up /\ ~down /\ ~buttonDown) => Lifted(verticalSpeed)
              /\ (down /\ ~up /\ ~buttonUp) => Lifted(-verticalSpeed)
              /\ (up /\ down) => camera'.position.y = camera.position.y
              /\ (~up /\ ~down /\ buttonUp /\ ~buttonDown) => Lifted(verticalSpeed \div 2)
              /\ (~up /\ ~down /\ buttonDown /\ ~buttonUp) => Lifted(-(verticalSpeed \div 2))
              /\ (~up /\ ~down /\ ~buttonUp /\ ~buttonDown) =>
                     camera'.position.y = camera.position.y ]_vars

\* one frame with only the up button held has raised the camera by half of
\* verticalSpeed
C27_Witness ==
    /\ ticks = 1
    /\ keys = { }
    /\ isMobile /\ mobileInput.verticalUp /\ ~mobileInput.verticalDown
    /\ camera.position.y = playerHeight + verticalSpeed \div 2


\* C28: at most one request is awaiting its answer at any time, and it is the
\* one sent last; no probe is sent after a probe that reported the file as
\* existing; and an import is sent only after findObjFile has returned: every
\* request before it is an answered probe, its path is not empty, and the path
\* is that of the probe that reported existing or, when all six probes
\* failed, the identifier's own file name.
C28_OneProbeAtATime ==
    /\ \A i \in 1..Len(requests) :
         requests[i].answer = "pending" => i = Len(requests)
    /\ \A i \in 1..Len(requests) : \A j \in 1..Len(requests) :
         (i < j /\ requests[i].kind = "probe" /\ requests[i].answer = "ok") =>
             requests[j].kind # "probe"
    /\ \A j \in 1..Len(requests) :
         requests[j].kind = "import" =>
             /\ pc \notin { "init", "probe", "findReturn" }
             /\ calls.findObjFile = 1
             /\ j > 1
             /\ \A i \in 1..(j - 1) : requests[i].kind = "probe"
             /\ Len(requests[j].path) > 0
             /\ \/ /\ requests[j - 1].answer = "ok"
                   /\ requests[j].path = requests[j - 1].path
                \/ /\ j = 7
                   /\ \A i \in 1..6 : requests[i].answer = "failed"
                   /\ requests[j].path = terrainName \o ".obj"
    /\ pc = "probe" <=>
         (requests # << >> /\ requests[Len(requests)] =
              [ kind |-> "probe", path |-> requests[Len(requests)].path,
                answer |-> "pending" ])

\* the third probe reported its file as existing and the import of that file
\* is awaited
C28_Witness ==
    /\ pc = "import"
    /\ Len(requests) = 4
    /\ requests[3] = [ kind |-> "probe", path |-> "Geordie.obj", answer |-> "ok" ]
    /\ requests[4] = [ kind |-> "import", path |-> "Geordie.obj", answer |-> "pending" ]


C30_NoTimeout ==
    /\ [](failedAt \notin C18_OutsideLoad) => <>rendering
    /\ [](pc = "probe" =>
            /\ ~rendering
            /\ placeholderCalls = 0
            /\ loadResult = "none"
            /\ farmMesh = Null
            /\ ~errorShown
            /\ ~loadingHidden
            /\ ticks = 0)
    /\ [][pc = "probe" =>
              /\ Len(probed') = Len(probed) + 1
              /\ SubSeq(probed', 1, Len(probed)) = probed]_vars

\* five probes have failed and the sixth is awaited
C30_Witness ==
    /\ pc = "probe"
    /\ fileIdx = 6
    /\ Len(probed) = 5
    /\ ~rendering


\* C31 (as claimed): farmMesh is assigned once, the imported entity or the
\* placeholder and never one after the other, and once loadTerrain has
\* returned no step changes farmMesh or terrainMinY.
\* Refuted: farmMesh is assigned inside the try block before the bounds are
\* read; an exception after the assignment reaches the catch block, which
\* assigns the placeholder over the imported entity.
C31_TerrainCreatedOnce ==
    [][ /\ farmMesh' # farmMesh => farmMesh = Null
        /\ pc \in AfterLoad \cup { "failed" } =>
              farmMesh' = farmMesh /\ terrainMinY' = terrainMinY ]_vars


\* what normalizeJoystickInput returns for each drag point and for the centre
C32_Normalized ==
    [ at \in DragPoints \cup { [ dx |-> 0, dy |-> 0 ] } |->
        normalizeJoystickInput(JoystickCenter.x + at.dx, JoystickCenter.y + at.dy,
                               JoystickCenter.x, JoystickCenter.y,
                               JoystickMaxDistance) ]

\* C32: the x and y of a joystick always come from one and the same move
\* event: they are the normalized offset of one drag point (both zero before
\* the first move and after a release), and for the joystick moved last they
\* are the normalized offset of that move.  This holds in every state, so in
\* every state a frame reads: a handler runs to its end before a frame can.
C32_JoystickSettled ==
    /\ \A type \in Joysticks : \E at \in DOMAIN C32_Normalized :
         /\ mobileInput[type].x = C32_Normalized[at].x
         /\ mobileInput[type].y = -C32_Normalized[at].y
    /\ drag.type \in Joysticks =>
         LET n == C32_Normalized[[ dx |-> drag.dx, dy |-> drag.dy ]]
         IN  /\ mobileInput[drag.type].x = n.x
             /\ mobileInput[drag.type].y = -n.y

\* a frame has moved the camera by a joystick deflection that replaced an
\* earlier one with another x and another y
C32_Witness ==
    /\ ticks = 1
    /\ steps = 4
    /\ drag = [ type |-> "movement", dx |-> 9, dy |-> -12 ]
    /\ mobileInput.movement = [ x |-> 300, y |-> 400, active |-> TRUE ]
    /\ camera.position.z # 10000

\* C33: a joystick that is not active has x = 0 and y = 0; its active flag is
\* true exactly while it is being dragged, that is from a start event to the
\* next end, cancel or leave event; and while a joystick is not being dragged
\* no event other than a start changes its state.
C33_InactiveJoystickCentred ==
    /\ [](\A type \in Joysticks :
            /\ mobileInput[type].active = dragging[type]
            /\ ~mobileInput[type].active =>
                  mobileInput[type].x = 0 /\ mobileInput[type].y = 0)
    /\ [][\A type \in Joysticks :
            (~dragging[type] /\ ~dragging'[type]) =>
                mobileInput'[type] = mobileInput[type]]_vars

\* the movement joystick is held deflected while the look joystick, not
\* dragged, is centred although a look event has been handled
C33_Witness ==
    /\ dragging.movement
    /\ mobileInput.movement = [ x |-> 600, y |-> -800, active |-> TRUE ]
    /\ ~dragging.look
    /\ mobileInput.look = RestingJoystick
    /\ lookEvent
    /\ ticks = 0
    /\ ~lastTouch.set


\* C34 (as claimed): in the step that starts the render loop the first-person
\* camera stands at or above terrainMinY + playerHeight, whatever bounding
\* box the import or the placeholder has produced.
\* Refuted: the camera is left where setupFirstPersonCamera put it, at
\* playerHeight above zero, also on a terrain that lies higher.
C34_SpawnAboveFloor ==
    [][ (~rendering /\ rendering') =>
          /\ camera'.kind = "UniversalCamera"
          /\ camera'.position.y >= terrainMinY' + playerHeight ]_vars


\* C35 (as claimed): a vertical button's flag is true only while a touch is in
\* progress on that button, whether the touch ended by touchend or by
\* touchcancel, and a frame takes a vertical contribution from a button only
\* while it is touched.
\* Refuted: the buttons listen to touchstart and touchend only; after a
\* touchcancel the flag stays true and the frames go on moving the camera.
C35_ButtonFlagFollowsTouch ==
    /\ [](\A b \in Buttons : mobileInput[b] => b \in touching)
    /\ [][ (ticks' = ticks + 1 /\ keys = { } /\ touching = { }) =>
              camera'.position.y = camera.position.y ]_vars


\* C36: when a vertical key and the touch button for the same direction are
\* both active in a frame, only the key counts: with nothing active in the
\* other direction the frame moves the camera by verticalSpeed (not below the
\* floor), not by verticalSpeed and a half.  In every frame the vertical
\* contribution is within verticalSpeed: a camera that is not below the floor
\* rises or sinks by at most verticalSpeed.
C36_KeyBeatsButton ==
    [][ (ticks' = ticks + 1 /\ camera.kind # "null") =>
          LET floor == terrainMinY + playerHeight
              buttonUp == isMobile /\ mobileInput.verticalUp
              buttonDown == isMobile /\ mobileInput.verticalDown
          IN  /\ ("e" \in keys /\ buttonUp /\ "q" \notin keys /\ ~buttonDown) =>
                     camera'.position.y = Max(camera.position.y + verticalSpeed, floor)
              /\ ("q" \in keys /\ buttonDown /\ "e" \notin keys /\ ~buttonUp) =>
                     camera'.position.y = Max(camera.position.y - verticalSpeed, floor)
              /\ camera.position.y >= floor =>
                     /\ camera'.position.y - camera.position.y <= verticalSpeed
                     /\ camera.position.y - camera'.position.y <= verticalSpeed ]_vars

\* one frame with the up key held and the up button touched has raised the
\* camera by verticalSpeed
C36_Witness ==
    /\ ticks = 1
    /\ keys = { "e" }
    /\ isMobile /\ mobileInput.verticalUp /\ ~mobileInput.verticalDown
    /\ terrainMinY = -6000
    /\ camera.position.y = playerHeight + verticalSpeed


\* C37: a movement key and the movement joystick held in the same frame add
\* up.  With only W held and the joystick fully forward the frame moves the
\* camera along its flattened forward direction by 2 * moveSpeed; with only W
\* held and the joystick fully backward the frame does not move it
\* horizontally at all.
C37_KeyAndJoystickAdd ==
    [][ (/\ ticks' = ticks + 1
         /\ camera.kind # "null"
         /\ keys = { "w" }
         /\ isMobile
         /\ mobileInput.movement.active
         /\ mobileInput.movement.x = 0) =>
          /\ mobileInput.movement.y = 1000 =>
               /\ camera'.position.x =
                    camera.position.x + Quot(Forward(rotation).x * 2 * moveSpeed, 1000)
               /\ camera'.position.z =
                    camera.position.z + Quot(Forward(rotation).z * 2 * moveSpeed, 1000)
          /\ mobileInput.movement.y = -1000 =>
               /\ camera'.position.x = camera.position.x
               /\ camera'.position.z = camera.position.z ]_vars

\* one frame with W held and the joystick fully forward has moved the camera
\* by twice the step of W alone
C37_Witness ==
    /\ ticks = 1
    /\ steps = 4
    /\ keys = { "w" }
    /\ isMobile
    /\ mobileInput.movement = [ x |-> 0, y |-> 1000, active |-> TRUE ]
    /\ ~mobileInput.look.active
    /\ rotation = [ x |-> -19997, y |-> 3141593 ]
    /\ camera.position.z # 10000
    /\ camera.position.z = 10000 + Quot(Forward(rotation).z * 2 * moveSpeed, 1000)


\* C38: the input handlers exist only once the first-person camera has
\* replaced the overview camera: whenever they are registered this.camera is
\* the UniversalCamera and the ArcRotate camera is disposed of, so no handler
\* can act on the overview camera; and while this.camera is the overview
\* camera no step changes its position or the stored orientation.
C38_InputOnlyOnFirstPerson ==
    /\ [](controlsSet => camera.kind = "UniversalCamera" /\ arcDisposed)
    /\ [](camera.kind = "ArcRotateCamera" => ~controlsSet /\ ~rendering /\ ticks = 0)
    /\ [][ (camera.kind = "ArcRotateCamera" /\ camera'.kind = "ArcRotateCamera") =>
              camera' = camera /\ rotation' = rotation ]_vars

\* the handlers, those for touch included, have just been registered
C38_Witness ==
    /\ pc = "controls"
    /\ controlsSet
    /\ isMobile
    /\ camera.kind = "UniversalCamera"
    /\ arcDisposed

=============================================================================
